---- MODULE Spec2Model ----
(***************************************************************************)
(* A model of the OpenWRT image build tasks: the target configuration      *)
(* parser and the derived values of utils.py, and the invoke tasks of      *)
(* tasks.py that issue container engine commands.                          *)
(*                                                                         *)
(* A Python str is modelled as a sequence of one-character strings, so     *)
(* that the regular expressions, str.strip, str.split and str.format are   *)
(* computed character by character as the code computes them.              *)
(***************************************************************************)
EXTENDS Integers, Sequences, FiniteSets, TLC

VARIABLES
    pc,        \* the calls still to run, the running one first
    halted,    \* the exception that ended the run, NotHalted if none did
    task,      \* the task named on the command line
    force,     \* the task's --force flag
    workdir,   \* the task's --workdir argument
    config,    \* the task's --config argument
    cwd,       \* os.getcwd()
    fs,        \* the files that exist: path -> contents
    images,    \* image name -> NoImage, or the image's age in days
    platform,  \* ctx.config.platform, "" until check_platform sets it
    cmds,      \* the commands issued through ctx.run, in order
    dirs,      \* the directories check_create_dir has created
    reads,     \* the paths handed to get_target_config, in order
    result,    \* outcome of the last get_target_config call
    basename,  \* argument of the last image_name call
    imgname,   \* the last image name computed
    url,       \* the last imagebuilder_url computed
    hostname   \* the last hostname computed

vars == <<pc, halted, task, force, workdir, config, cwd, fs, images, platform, cmds, dirs, reads, result, basename, imgname,
          url, hostname>>

None == [none |-> TRUE]

-----------------------------------------------------------------------------
(* Character classes of Python's re module and str methods (ASCII part).   *)

Digits == {"0", "1", "2", "3", "4", "5", "6", "7", "8", "9"}
Lower == {"a", "b", "c", "d", "e", "f", "g", "h", "i", "j", "k", "l", "m",
          "n", "o", "p", "q", "r", "s", "t", "u", "v", "w", "x", "y", "z"}
Upper == {"A", "B", "C", "D", "E", "F", "G", "H", "I", "J", "K", "L", "M",
          "N", "O", "P", "Q", "R", "S", "T", "U", "V", "W", "X", "Y", "Z"}
\* \w
WordChars == Digits \cup Lower \cup Upper \cup {"_"}
\* \s, and the characters str.strip() and str.split() treat as whitespace
SpaceChars == {" ", "\t", "\n", "\r", "\f"}
\* the line boundaries of str.splitlines()
LineBreaks == {"\n", "\r", "\f"}
Quotes == {"\"", "'"}

-----------------------------------------------------------------------------
(* Sequence helpers.                                                       *)

Min(S) == CHOOSE x \in S : \A y \in S : x <= y
Max(S) == CHOOSE x \in S : \A y \in S : x >= y

\* s[i..]
From(s, i) == SubSeq(s, i, Len(s))

\* Smallest position >= i of a character of cls in s, Len(s) + 1 if none.
IndexOf(s, i, cls) ==
    LET js == {j \in i..Len(s) : s[j] \in cls}
    IN IF js = {} THEN Len(s) + 1 ELSE Min(js)

\* Length of the maximal run of characters of cls that starts at position i.
RunLen(s, i, cls) ==
    LET js == {j \in i..Len(s) : s[j] \notin cls}
    IN (IF js = {} THEN Len(s) + 1 ELSE Min(js)) - i

\* sep.join(parts)
RECURSIVE Join(_, _)
Join(sep, parts) ==
    IF parts = <<>> THEN <<>>
    ELSE IF Len(parts) = 1 THEN parts[1]
    ELSE parts[1] \o sep \o Join(sep, Tail(parts))

\* Whether sub occurs in s as a substring.
Contains(s, sub) ==
    \E i \in 1..(Len(s) - Len(sub) + 1) : SubSeq(s, i, i + Len(sub) - 1) = sub

EndsWith(s, suffix) ==
    /\ Len(s) >= Len(suffix)
    /\ SubSeq(s, Len(s) - Len(suffix) + 1, Len(s)) = suffix

\* str(n) of a non-negative int
RECURSIVE IntToStr(_)
IntToStr(n) ==
    LET d == <<"0", "1", "2", "3", "4", "5", "6", "7", "8", "9">>[(n % 10) + 1]
    IN IF n < 10 THEN <<d>> ELSE IntToStr(n \div 10) \o <<d>>

DigitVal(ch) == CHOOSE v \in 0..9 : IntToStr(v) = <<ch>>

\* int(s) of a string of decimal digits
RECURSIVE StrToInt(_)
StrToInt(s) ==
    IF s = <<>> THEN 0
    ELSE 10 * StrToInt(SubSeq(s, 1, Len(s) - 1)) + DigitVal(s[Len(s)])

\* s.split(sep) for a one-character separator
RECURSIVE SplitOn(_, _)
SplitOn(s, sep) ==
    LET e == IndexOf(s, 1, {sep})
    IN IF e > Len(s) THEN <<s>>
       ELSE <<SubSeq(s, 1, e - 1)>> \o SplitOn(From(s, e + 1), sep)

\* s.split(): the maximal runs of non-whitespace characters
RECURSIVE split(_)
split(s) ==
    LET b == RunLen(s, 1, SpaceChars) + 1
    IN IF b > Len(s) THEN <<>>
       ELSE LET e == IndexOf(s, b, SpaceChars)
            IN <<SubSeq(s, b, e - 1)>> \o split(From(s, e))

-----------------------------------------------------------------------------
(* utils.py: strip_whitespace                                              *)

RECURSIVE LStrip(_)
LStrip(s) == IF s # <<>> /\ Head(s) \in SpaceChars THEN LStrip(Tail(s)) ELSE s

RECURSIVE RStrip(_)
RStrip(s) ==
    IF s # <<>> /\ s[Len(s)] \in SpaceChars
    THEN RStrip(SubSeq(s, 1, Len(s) - 1))
    ELSE s

\* value.strip()
Strip(s) == RStrip(LStrip(s))

\* re.sub(r"\s\s+", " ", value): a run of two or more whitespace characters
\* becomes one space; a single whitespace character stays as it is.
RECURSIVE CollapseSpaces(_)
CollapseSpaces(s) ==
    IF s = <<>> THEN <<>>
    ELSE LET n == RunLen(s, 1, SpaceChars)
         IN IF n >= 2 THEN <<" ">> \o CollapseSpaces(From(s, n + 1))
            ELSE <<Head(s)>> \o CollapseSpaces(Tail(s))

strip_whitespace(value) == CollapseSpaces(Strip(value))

-----------------------------------------------------------------------------
(* utils.py: get_target_config, the parsing of the file contents           *)

\* re.sub(r"(^#.*[\r?\n])", "", contents, flags=re.MULTILINE), with s
\* starting at a line start.  "^#" matches at a line start only, ".*" runs
\* to the end of the line, and the class [\r?\n] needs one more character:
\* the line's "\n" if it has one; on a last line without "\n" the match
\* backtracks to the last "\r" or "?" of the line and removes up to it, or
\* fails and leaves the line in place.
RECURSIVE StripCommentLines(_)
StripCommentLines(s) ==
    IF s = <<>> THEN <<>>
    ELSE LET e == IndexOf(s, 1, {"\n"})
         IN IF Head(s) = "#"
            THEN IF e <= Len(s)
                 THEN StripCommentLines(From(s, e + 1))
                 ELSE LET js == {j \in 2..Len(s) : s[j] \in {"\r", "?"}}
                      IN IF js = {} THEN s ELSE From(s, Max(js) + 1)
            ELSE IF e <= Len(s)
                 THEN SubSeq(s, 1, e) \o StripCommentLines(From(s, e + 1))
                 ELSE s

\* re.sub(r"(#.*)(?=\r?\n)", "", contents): on a line that ends in "\n",
\* everything from the first "#" up to the "\n" is removed; the lookahead
\* never succeeds on a last line without "\n".
RECURSIVE StripTrailingComments(_)
StripTrailingComments(s) ==
    IF s = <<>> THEN <<>>
    ELSE LET e == IndexOf(s, 1, {"\n"})
             h == IndexOf(s, 1, {"#"})
         IN IF e > Len(s) THEN s
            ELSE SubSeq(s, 1, Min({e, h}) - 1) \o <<"\n">>
                 \o StripTrailingComments(From(s, e + 1))

\* Mutant of CollapseRuns: the character class lacks the backslash.
RECURSIVE CollapseRuns_KeepBackslash(_)
CollapseRuns_KeepBackslash(s) ==
    IF s = <<>> THEN <<>>
    ELSE LET n == RunLen(s, 1, SpaceChars)
         IN IF n >= 1 THEN <<" ">> \o CollapseRuns_KeepBackslash(From(s, n + 1))
            ELSE <<Head(s)>> \o CollapseRuns_KeepBackslash(Tail(s))

\* re.sub(r"[\\\r\n\s]+", " ", m.group(0)): every run of backslashes and
\* whitespace becomes one space.
RECURSIVE CollapseRuns(_)
CollapseRuns(s) ==
    IF s = <<>> THEN <<>>
    ELSE LET n == RunLen(s, 1, SpaceChars \cup {"\\"})
         IN IF n >= 1 THEN <<" ">> \o CollapseRuns(From(s, n + 1))
            ELSE <<Head(s)>> \o CollapseRuns(Tail(s))

\* re.sub(r"(?:[\"\'])[^\"\']+(?:[\"\'])", lambda m: ..., contents): a match
\* runs from a quote character to the next quote character of either kind,
\* with at least one character between them; matches do not overlap.
RECURSIVE NormalizeQuoted(_)
NormalizeQuoted(s) ==
    LET q == IndexOf(s, 1, Quotes)
        r == IndexOf(s, q + 1, Quotes)
    IN IF q > Len(s) \/ r > Len(s) THEN s
       ELSE IF r = q + 1
       THEN SubSeq(s, 1, q) \o NormalizeQuoted(From(s, q + 1))
       ELSE SubSeq(s, 1, q - 1) \o CollapseRuns(SubSeq(s, q, r))
            \o NormalizeQuoted(From(s, r + 1))

\* contents.splitlines()
RECURSIVE splitlines(_)
splitlines(s) ==
    IF s = <<>> THEN <<>>
    ELSE LET e == IndexOf(s, 1, LineBreaks)
             n == IF e < Len(s) /\ s[e] = "\r" /\ s[e + 1] = "\n" THEN 2 ELSE 1
         IN IF e > Len(s) THEN <<s>>
            ELSE <<SubSeq(s, 1, e - 1)>> \o splitlines(From(s, e + n))

\* [\w\-\.] and [\w\s\-\.]
KeyChars == WordChars \cup {"-", "."}
ValueChars == WordChars \cup SpaceChars \cup {"-", "."}

\* pattern.match(line) for
\* (?P<key>[\w\-\.]+)=(?:[\'\"])?(?P<value>[\w\s\-\.]*)(?:[\'\"])?
\* The match is anchored at the start of the line only.
pattern_match(line) ==
    LET kn == RunLen(line, 1, KeyChars)
        p  == kn + 2
        vs == IF p <= Len(line) /\ line[p] \in Quotes THEN p + 1 ELSE p
        vn == RunLen(line, vs, ValueChars)
    IN IF kn = 0 \/ kn + 1 > Len(line) \/ line[kn + 1] # "="
       THEN None
       ELSE [key |-> SubSeq(line, 1, kn), value |-> SubSeq(line, vs, vs + vn - 1)]

\* c[k] = v on a dict, which keeps its keys in insertion order.
DictSet(c, k, v) ==
    IF \E j \in 1..Len(c) : c[j].k = k
    THEN [j \in 1..Len(c) |-> IF c[j].k = k THEN [k |-> k, v |-> v] ELSE c[j]]
    ELSE Append(c, [k |-> k, v |-> v])

DictHas(c, k) == \E j \in 1..Len(c) : c[j].k = k
DictGet(c, k) == c[CHOOSE j \in 1..Len(c) : c[j].k = k].v

\* The loop over contents.splitlines().
RECURSIVE ParseLines(_, _)
ParseLines(lines, c) ==
    IF lines = <<>> THEN c
    ELSE LET m == pattern_match(Head(lines))
         IN ParseLines(Tail(lines),
                IF m = None THEN c
                ELSE DictSet(c, strip_whitespace(m.key), strip_whitespace(m.value)))

\* The body of "with open(config_path) as f": contents -> c.
ParseContents(contents) ==
    ParseLines(
        splitlines(NormalizeQuoted(StripTrailingComments(StripCommentLines(contents)))),
        <<>>)

-----------------------------------------------------------------------------
\* semver: parse_version_info, as utils.py calls it.  The version must match
\*   ^(0|[1-9]\d*)\.(0|[1-9]\d*)\.(0|[1-9]\d*)(?:-<prerelease>)?(?:\+<build>)?$
\* where a numeric identifier has no leading zero.

AlnumHyphen == Digits \cup Lower \cup Upper \cup {"-"}

\* 0|[1-9]\d*
IsNumericId(s) ==
    /\ s # <<>>
    /\ \A i \in 1..Len(s) : s[i] \in Digits
    /\ Len(s) > 1 => s[1] # "0"

\* 0|[1-9]\d*|\d*[a-zA-Z-][0-9a-zA-Z-]*
IsPrereleaseId(s) ==
    /\ s # <<>>
    /\ \A i \in 1..Len(s) : s[i] \in AlnumHyphen
    /\ IsNumericId(s) \/ \E i \in 1..Len(s) : s[i] \notin Digits

\* [0-9a-zA-Z-]+
IsBuildId(s) == s # <<>> /\ \A i \in 1..Len(s) : s[i] \in AlnumHyphen

\* The core, prerelease and build parts of a version string.
SemVerParts(version) ==
    LET plus == IndexOf(version, 1, {"+"})
        left == SubSeq(version, 1, plus - 1)
        dash == IndexOf(left, 1, {"-"})
    IN [core  |-> SplitOn(SubSeq(left, 1, dash - 1), "."),
        has_prerelease |-> dash <= Len(left),
        prerelease |-> From(left, dash + 1),
        has_build |-> plus <= Len(version),
        build |-> From(version, plus + 1)]

IsValidSemVer(version) ==
    LET p == SemVerParts(version)
    IN /\ Len(p.core) = 3
       /\ \A i \in 1..3 : IsNumericId(p.core[i])
       /\ p.has_prerelease =>
              LET ids == SplitOn(p.prerelease, ".")
              IN \A i \in 1..Len(ids) : IsPrereleaseId(ids[i])
       /\ p.has_build =>
              LET ids == SplitOn(p.build, ".")
              IN \A i \in 1..Len(ids) : IsBuildId(ids[i])

\* The VersionInfo of a valid version string.
parse_version_info(version) ==
    LET p == SemVerParts(version)
    IN [major |-> StrToInt(p.core[1]),
        minor |-> StrToInt(p.core[2]),
        patch |-> StrToInt(p.core[3]),
        prerelease |-> IF p.has_prerelease THEN p.prerelease ELSE <<>>,
        build |-> IF p.has_build THEN p.build ELSE <<>>]

-----------------------------------------------------------------------------
(* utils.py: constants and TargetConfig                                    *)

IMAGEBUILDER_BASE_URL ==
    <<"h", "t", "t", "p", "s", ":", "/", "/", "d", "o", "w", "n", "l", "o", "a", "d", "s", ".", "o", "p", "e", "n", "w", "r", "t", ".", "o", "r", "g", "/", "r", "e", "l", "e", "a", "s", "e", "s", "/", "{", "}", "/", "t", "a", "r", "g", "e", "t", "s", "/", "{", "}", "/", "{", "}", "/">>
    \o <<"o", "p", "e", "n", "w", "r", "t", "-", "i", "m", "a", "g", "e", "b", "u", "i", "l", "d", "e", "r", "-", "{", "}", "-", "{", "}", "-", "{", "}", ".", "L", "i", "n", "u", "x", "-", "x", "8", "6", "_", "6", "4", ".", "t", "a", "r", ".", "{", "}">>

OPENWRT_PROFILE == <<"O", "P", "E", "N", "W", "R", "T", "_", "P", "R", "O", "F", "I", "L", "E">>
OPENWRT_RELEASE == <<"O", "P", "E", "N", "W", "R", "T", "_", "R", "E", "L", "E", "A", "S", "E">>
OPENWRT_TARGET == <<"O", "P", "E", "N", "W", "R", "T", "_", "T", "A", "R", "G", "E", "T">>
OPENWRT_SUBTARGET == <<"O", "P", "E", "N", "W", "R", "T", "_", "S", "U", "B", "T", "A", "R", "G", "E", "T">>
OPENWRT_PACKAGES == <<"O", "P", "E", "N", "W", "R", "T", "_", "P", "A", "C", "K", "A", "G", "E", "S">>
OPENWRT_DISABLED_SERVICES ==
    <<"O", "P", "E", "N", "W", "R", "T", "_", "D", "I", "S", "A", "B", "L", "E", "D", "_", "S", "E", "R", "V", "I", "C", "E", "S">>

REQUIRED_CONFIG_KEYS ==
    <<OPENWRT_PROFILE, OPENWRT_RELEASE, OPENWRT_TARGET, OPENWRT_SUBTARGET,
      OPENWRT_PACKAGES>>

RequiredKeySet == {REQUIRED_CONFIG_KEYS[i] : i \in 1..Len(REQUIRED_CONFIG_KEYS)}

\* template.format(*args) with "{}" replacement fields
RECURSIVE Format(_, _)
Format(template, args) ==
    IF template = <<>> THEN <<>>
    ELSE IF Len(template) >= 2 /\ template[1] = "{" /\ template[2] = "}"
    THEN Head(args) \o Format(From(template, 3), Tail(args))
    ELSE <<Head(template)>> \o Format(Tail(template), args)

\* TargetConfig.release_str
release_str(conf) ==
    IntToStr(conf.release.major) \o <<".">> \o IntToStr(conf.release.minor)
    \o <<".">> \o IntToStr(conf.release.patch)

\* Mutant of ArchiveExt: the threshold is compared with > instead of >=.
ArchiveExt_Above24(conf) ==
    IF conf.release.major > 24 THEN <<"z", "s", "t">> ELSE <<"x", "z">>

\* The archive extension chosen by TargetConfig.imagebuilder_url
ArchiveExt(conf) ==
    IF conf.release.major >= 24 THEN <<"z", "s", "t">> ELSE <<"x", "z">>

\* TargetConfig.imagebuilder_url
imagebuilder_url(conf) ==
    Format(IMAGEBUILDER_BASE_URL,
           <<release_str(conf), conf.target, conf.subtarget,
             release_str(conf), conf.target, conf.subtarget, ArchiveExt(conf)>>)

\* Mutant of image_name: str(release), with its pre-release, instead of
\* release_str.
image_name_FullVersion(conf, base) ==
    <<"o", "p", "e", "n", "w", "r", "t", "/">> \o base \o <<"-">> \o release_str(conf)
    \o (IF conf.release.prerelease = <<>> THEN <<>>
        ELSE <<"-">> \o conf.release.prerelease)
    \o <<"-">> \o conf.target \o <<"-">> \o conf.subtarget

\* TargetConfig.image_name
image_name(conf, base) ==
    <<"o", "p", "e", "n", "w", "r", "t", "/">> \o base \o <<"-">> \o release_str(conf)
    \o <<"-">> \o conf.target \o <<"-">> \o conf.subtarget

-----------------------------------------------------------------------------
(* utils.py: get_target_config                                             *)

\* os.path.exists(path)
path_exists(fsys, path) ==
    path # <<>> /\ path \in DOMAIN fsys

\* The outcome of a call: a TargetConfig, or the exception it raised.
Returned(conf) == [ok |-> TRUE, error |-> "", message |-> <<>>, conf |-> conf]
Raised(kind, message) ==
    [ok |-> FALSE, error |-> kind, message |-> message, conf |-> None]

\* str(REQUIRED_CONFIG_KEYS), as the f-string formats the list
RECURSIVE ReprItems(_)
ReprItems(keys) ==
    IF keys = <<>> THEN <<>>
    ELSE <<"'">> \o Head(keys) \o <<"'">>
         \o (IF Len(keys) > 1 THEN <<",", " ">> ELSE <<>>) \o ReprItems(Tail(keys))

ReprList(keys) == <<"[">> \o ReprItems(keys) \o <<"]">>

\* Mutant of MissingKeysMessage: the list of required keys is left out.
MissingKeysMessage_NoList(path) ==
    <<"C", "o", "n", "f", "i", "g", " ", "f", "i", "l", "e", " ">> \o path
    \o <<" ", "d", "o", "e", "s", " ", "n", "o", "t", " ", "c", "o", "n", "t", "a", "i", "n", " ", "a", "l", "l", " ", "r", "e", "q", "u", "i", "r", "e", "d", " ", "k", "e", "y", "s">>

\* f"Config file {config_path} does not contain all required keys: {REQUIRED_CONFIG_KEYS}"
MissingKeysMessage(path) ==
    <<"C", "o", "n", "f", "i", "g", " ", "f", "i", "l", "e", " ">> \o path
    \o <<" ", "d", "o", "e", "s", " ", "n", "o", "t", " ", "c", "o", "n", "t", "a", "i", "n", " ", "a", "l", "l", " ", "r", "e", "q", "u", "i", "r", "e", "d", " ", "k", "e", "y", "s", ":", " ">>
    \o ReprList(REQUIRED_CONFIG_KEYS)

\* f"Config key {k} has invalid value: {v}"
InvalidValueMessage(k, v) ==
    <<"C", "o", "n", "f", "i", "g", " ", "k", "e", "y", " ">> \o k
    \o <<" ", "h", "a", "s", " ", "i", "n", "v", "a", "l", "i", "d", " ", "v", "a", "l", "u", "e", ":", " ">> \o v

\* semver's ValueError: f"{version} is not valid SemVer string"
SemVerMessage(version) ==
    version \o <<" ", "i", "s", " ", "n", "o", "t", " ", "v", "a", "l", "i", "d", " ", "S", "e", "m", "V", "e", "r", " ", "s", "t", "r", "i", "n", "g">>

NotFoundMessage ==
    <<"C", "o", "n", "f", "i", "g", " ", "f", "i", "l", "e", " ", "n", "o", "t", " ", "f", "o", "u", "n", "d">>

\* The dict c after the try block: the parsed file, or {} when open()
\* raised FileNotFoundError.
ReadConfig(fsys, path) ==
    IF path_exists(fsys, path) THEN ParseContents(fsys[path]) ELSE <<>>

\* Mutant of EmptyRequired: only the first entry of the dict is examined.
EmptyRequired_FirstOnly(c) ==
    {j \in 1..Len(c) : j = 1 /\ c[j].k \in RequiredKeySet /\ c[j].v = <<>>}

\* Positions of c, in c.keys() order, of a required key whose value is falsy.
EmptyRequired(c) ==
    {j \in 1..Len(c) : c[j].k \in RequiredKeySet /\ c[j].v = <<>>}

\* The TargetConfig built from a validated dict c.
MakeTargetConfig(c) ==
    [profile |-> DictGet(c, OPENWRT_PROFILE),
     release |-> parse_version_info(DictGet(c, OPENWRT_RELEASE)),
     target |-> DictGet(c, OPENWRT_TARGET),
     subtarget |-> DictGet(c, OPENWRT_SUBTARGET),
     packages |-> split(DictGet(c, OPENWRT_PACKAGES)),
     disabled_services |->
         IF ~DictHas(c, OPENWRT_DISABLED_SERVICES) THEN <<>>
         ELSE split(DictGet(c, OPENWRT_DISABLED_SERVICES))]

\* Validation and construction, from the dict c on.
from_map(path, c) ==
    IF ~(\A i \in 1..Len(REQUIRED_CONFIG_KEYS) : DictHas(c, REQUIRED_CONFIG_KEYS[i]))
    THEN Raised("RuntimeError", MissingKeysMessage(path))
    ELSE IF EmptyRequired(c) # {}
    THEN LET j == Min(EmptyRequired(c))
         IN Raised("RuntimeError", InvalidValueMessage(c[j].k, c[j].v))
    ELSE IF ~IsValidSemVer(DictGet(c, OPENWRT_RELEASE))
    THEN Raised("ValueError", SemVerMessage(DictGet(c, OPENWRT_RELEASE)))
    ELSE Returned(MakeTargetConfig(c))

get_target_config(fsys, path) ==
    IF ~(path # <<>> \/ path_exists(fsys, path))
    THEN Raised("RuntimeError", NotFoundMessage)
    ELSE from_map(path, ReadConfig(fsys, path))

-----------------------------------------------------------------------------
(* tasks.py: imgname_to_hostname                                           *)

\* re.sub(r"[\\/\._-]", "-", imgname)
imgname_to_hostname(name) ==
    [i \in 1..Len(name) |->
        IF name[i] \in {"\\", "/", ".", "_", "-"} THEN "-" ELSE name[i]]

-----------------------------------------------------------------------------
(* utils.py: join_path                                                     *)

\* os.path.join(path1, path2) on POSIX
join_path(path1, path2) ==
    IF path2 # <<>> /\ path2[1] = "/" THEN path2
    ELSE IF path1 = <<>> \/ path1[Len(path1)] = "/" THEN path1 \o path2
    ELSE path1 \o <<"/">> \o path2

-----------------------------------------------------------------------------
(* Calls.  pc holds the calls still to run; a call that raises empties it. *)

\* A call, with the arguments that differ between calls of the model.
Call(fn) == [fn |-> fn, force |-> FALSE, command |-> <<>>, conf |-> None]

Running(fn) == pc # <<>> /\ Head(pc).fn = fn

\* The value of the process's variables that a step leaves alone.
EnvVars == <<task, force, workdir, config, cwd, fs>>

-----------------------------------------------------------------------------
(* The inputs of the configuration specification: config files written as  *)
(* KEY=VALUE lines, one line per key that is present.                      *)

\* Largest release major among the inputs.
MaxMajor == 25

DEFAULT_CONF == <<"d", "e", "f", "a", "u", "l", "t", ".", "c", "o", "n", "f">>

Absent == <<>>
Present(v) == <<v>>

ConfigLine(key, opt) ==
    IF opt = Absent THEN <<>> ELSE key \o <<"=">> \o opt[1] \o <<"\n">>

ConfigFile(profile, release, target, subtarget, packages) ==
    ConfigLine(OPENWRT_PROFILE, profile) \o ConfigLine(OPENWRT_RELEASE, release)
    \o ConfigLine(OPENWRT_TARGET, target) \o ConfigLine(OPENWRT_SUBTARGET, subtarget)
    \o ConfigLine(OPENWRT_PACKAGES, packages)

ReleaseCores ==
    {IntToStr(major) \o <<".">> \o minor \o <<".", "0">> :
        major \in 23..MaxMajor, minor \in {<<"0">>, <<"0", "5">>, <<"1", "0">>}}

ReleaseInputs ==
    ReleaseCores
    \cup {IntToStr(major) \o <<".", "1", "0", ".", "0", "-", "r", "c", "1">> : major \in 23..MaxMajor}
    \cup {<<"2", "3", ".", "0", "5", ".", "2">>, <<"2", "4", ".", "1", "0">>,
          <<"2", "4", ".", "1", "0", ".", "0", ".", "1">>, <<"v", "2", "4">>}

ProfileInputs == {<<"g", "e", "n", "e", "r", "i", "c">>}
TargetInputs == {<<"x", "8", "6">>, <<"a", "-", "b">>, <<"a">>, <<"-", "x">>}
SubtargetInputs == {<<"6", "4">>, <<"c">>, <<"b", "-", "c">>}
PackagesInputs == {<<"l", "u", "c", "i", " ", "c", "u", "r", "l">>}
BasenameInputs == {<<"i", "m", "a", "g", "e", "b", "u", "i", "l", "d", "e", "r">>, <<"b", "a", "s", "e">>}

\* A key is absent, present with an empty value, or present with a value.
Options(values) == {Absent, Present(<<>>)} \cup {Present(v) : v \in values}

ConfigFileInputs ==
    {ConfigFile(p, r, t, s, k) :
        p \in Options(ProfileInputs \cup {<<" ">>}), r \in Options(ReleaseInputs),
        t \in Options(TargetInputs), s \in Options(SubtargetInputs),
        k \in Options(PackagesInputs)}

-----------------------------------------------------------------------------
(* The configuration specification: one call of get_target_config on an    *)
(* input file, then the derived values of the TargetConfig it returned.    *)

NotHalted == [error |-> "", message |-> <<>>]
NoResult == Raised("", <<>>)

ProjectRoot == <<"/", "w">>

InitConfig ==
    /\ pc = <<Call("get_target_config"), Call("image_name"),
              Call("imagebuilder_url"), Call("imgname_to_hostname")>>
    /\ halted = NotHalted
    /\ task = "get_target_config"
    /\ force = FALSE
    /\ \/ /\ workdir = ProjectRoot /\ config = DEFAULT_CONF
          /\ \/ \E file \in ConfigFileInputs :
                    fs = (join_path(workdir, config) :> file)
             \/ fs = <<>>
       \/ workdir = <<>> /\ config = <<>> /\ fs = <<>>
    /\ cwd = workdir
    /\ images = <<>>
    /\ platform = ""
    /\ cmds = <<>>
    /\ dirs = {}
    /\ reads = <<>>
    /\ result = NoResult
    /\ basename = <<>>
    /\ imgname = <<>>
    /\ url = <<>>
    /\ hostname = <<>>

\* conf = get_target_config(join_path(workdir, config)), as build, shell and
\* clean call it; an exception ends the run.
GetTargetConfigCall ==
    /\ Running("get_target_config")
    /\ LET path == join_path(workdir, config)
           r == get_target_config(fs, path)
       IN /\ result' = r
          /\ reads' = Append(reads, path)
          /\ pc' = IF r.ok THEN Tail(pc) ELSE <<>>
          /\ halted' = IF r.ok THEN halted
                       ELSE [error |-> r.error, message |-> r.message]
    /\ UNCHANGED <<EnvVars, images, platform, cmds, dirs, basename, imgname, url, hostname>>

\* imgname = conf.image_name(basename)
ImageNameCall ==
    /\ Running("image_name")
    /\ \E b \in BasenameInputs :
          /\ basename' = b
          /\ imgname' = image_name(result.conf, b)
    /\ pc' = Tail(pc)
    /\ UNCHANGED <<EnvVars, halted, images, platform, cmds, dirs, reads, result, url, hostname>>

\* url = conf.imagebuilder_url
ImagebuilderUrlCall ==
    /\ Running("imagebuilder_url")
    /\ url' = imagebuilder_url(result.conf)
    /\ pc' = Tail(pc)
    /\ UNCHANGED <<EnvVars, halted, images, platform, cmds, dirs, reads, result, basename,
                   imgname, hostname>>

\* hostname = imgname_to_hostname(imgname)
ImgnameToHostnameCall ==
    /\ Running("imgname_to_hostname")
    /\ hostname' = imgname_to_hostname(imgname)
    /\ pc' = Tail(pc)
    /\ UNCHANGED <<EnvVars, halted, images, platform, cmds, dirs, reads, result, basename,
                   imgname, url>>

NextConfig ==
    \/ GetTargetConfigCall
    \/ ImageNameCall
    \/ ImagebuilderUrlCall
    \/ ImgnameToHostnameCall

SpecConfig == InitConfig /\ [][NextConfig]_vars

-----------------------------------------------------------------------------
(* The parser specification: one call of get_target_config on a file made  *)
(* of the four short required keys and a few lines of the other kinds the   *)
(* parser treats: plain, quoted and continued values, comments.            *)

\* Number of lines a file has besides the four fixed ones.
MaxLines == 2

\* OPENWRT_PROFILE, OPENWRT_RELEASE, OPENWRT_TARGET and OPENWRT_SUBTARGET,
\* one plain assignment each.
FixedLines ==
    ConfigFile(Present(<<"p">>), Present(<<"2", "4", ".", "0", ".", "0">>),
               Present(<<"t">>), Present(<<"s">>), Absent)

\* Lines, without their terminator: plain assignments.
PlainLines ==
    {<<"O", "P", "E", "N", "W", "R", "T", "_", "P", "A", "C", "K", "A", "G", "E", "S", "=", "l", "u", "c", "i", " ", "c", "u", "r", "l">>,
     <<"O", "P", "E", "N", "W", "R", "T", "_", "D", "I", "S", "A", "B", "L", "E", "D", "_", "S", "E", "R", "V", "I", "C", "E", "S", "=">>,
     <<"O", "P", "E", "N", "W", "R", "T", "_", "D", "I", "S", "A", "B", "L", "E", "D", "_", "S", "E", "R", "V", "I", "C", "E", "S", "=", "d", "n", "s", "m", "a", "s", "q">>}

\* Lines, without their terminator: quoted assignments, the quotes balanced on the line.
QuotedLines ==
    {<<"O", "P", "E", "N", "W", "R", "T", "_", "P", "A", "C", "K", "A", "G", "E", "S", "=", "\"", "l", "u", "c", "i", " ", "c", "u", "r", "l", "\"">>,
     <<"O", "P", "E", "N", "W", "R", "T", "_", "P", "A", "C", "K", "A", "G", "E", "S", "=", "'", "l", "u", "c", "i", "'">>,
     <<"O", "P", "E", "N", "W", "R", "T", "_", "D", "I", "S", "A", "B", "L", "E", "D", "_", "S", "E", "R", "V", "I", "C", "E", "S", "=", "\"", "\"">>,
     <<"O", "P", "E", "N", "W", "R", "T", "_", "D", "I", "S", "A", "B", "L", "E", "D", "_", "S", "E", "R", "V", "I", "C", "E", "S", "=", "\"", "d", "n", "s", "m", "a", "s", "q", "\"">>}

\* Lines, without their terminator: quoted values continued over several lines with a backslash.
ContinuedLines ==
    {<<"O", "P", "E", "N", "W", "R", "T", "_", "P", "A", "C", "K", "A", "G", "E", "S", "=", "\"", "l", "u", "c", "i", " ", "\\", "\n", " ", " ", "c", "u", "r", "l", "\"">>,
     <<"O", "P", "E", "N", "W", "R", "T", "_", "P", "A", "C", "K", "A", "G", "E", "S", "=", "\"", "l", "u", "c", "i", "\\", "\n", "\t", "c", "u", "r", "l", " ", "\\", "\n", "s", "s", "l", "\"">>}

\* Lines, without their terminator: comment lines.
CommentLines ==
    {<<"#", " ", "n", "o", "t", "e">>,
     <<"#">>,
     <<"#", "O", "P", "E", "N", "W", "R", "T", "_", "D", "I", "S", "A", "B", "L", "E", "D", "_", "S", "E", "R", "V", "I", "C", "E", "S", "=", "x">>,
     <<"#", "a", "?", "O", "P", "E", "N", "W", "R", "T", "_", "D", "I", "S", "A", "B", "L", "E", "D", "_", "S", "E", "R", "V", "I", "C", "E", "S", "=", "x">>}

\* Lines, without their terminator: assignments with a trailing comment.
TrailingCommentLines ==
    {<<"O", "P", "E", "N", "W", "R", "T", "_", "D", "I", "S", "A", "B", "L", "E", "D", "_", "S", "E", "R", "V", "I", "C", "E", "S", "=", "d", "n", "s", "m", "a", "s", "q", " ", "#", " ", "n", "o", "t", "e">>,
     <<"O", "P", "E", "N", "W", "R", "T", "_", "P", "A", "C", "K", "A", "G", "E", "S", "=", "l", "u", "c", "i", " ", "#", "c", "u", "r", "l">>}

LineInputs ==
    PlainLines \cup QuotedLines \cup ContinuedLines \cup CommentLines
    \cup TrailingCommentLines

\* The lines joined by "\n", with or without a terminator after the last.
FileText(lines, terminated) ==
    Join(<<"\n">>, lines) \o (IF terminated THEN <<"\n">> ELSE <<>>)

ParserFileInputs ==
    {IF fixed_first THEN FixedLines \o FileText(lines, terminated)
     ELSE FileText(lines, TRUE) \o SubSeq(FixedLines, 1,
              Len(FixedLines) - (IF terminated THEN 0 ELSE 1)) :
        lines \in UNION {[1..n -> LineInputs] : n \in 1..MaxLines},
        terminated \in BOOLEAN, fixed_first \in BOOLEAN}

InitParser ==
    /\ pc = <<Call("get_target_config")>>
    /\ halted = NotHalted
    /\ task = "get_target_config"
    /\ force = FALSE
    /\ workdir = ProjectRoot
    /\ config = DEFAULT_CONF
    /\ \E file \in ParserFileInputs : fs = (join_path(workdir, config) :> file)
    /\ cwd = workdir
    /\ images = <<>>
    /\ platform = ""
    /\ cmds = <<>>
    /\ dirs = {}
    /\ reads = <<>>
    /\ result = NoResult
    /\ basename = <<>>
    /\ imgname = <<>>
    /\ url = <<>>
    /\ hostname = <<>>

NextParser == GetTargetConfigCall

SpecParser == InitParser /\ [][NextParser]_vars

-----------------------------------------------------------------------------
(* tasks.py: constants, and the commands handed to ctx.run                 *)

DEFAULT_MAX_AGE == 3
OPENWRT_BASE_IMAGE == <<"o", "p", "e", "n", "w", "r", "t", "/", "b", "a", "s", "e">>
IMAGEBUILDER_WORKDIR_ROOT == <<"/", "b", "u", "i", "l", "d", "e", "r">>
IMAGEBUILDER_WORKDIR == IMAGEBUILDER_WORKDIR_ROOT \o <<"/", "i", "m", "a", "g", "e", "b", "u", "i", "l", "d", "e", "r">>

\* A command line: the program, its subcommand, the image it names and, for
\* a build, --no-cache and the BUILDER_URL build argument; for a run, the
\* --hostname and the command run in the container.
Cmd(prog, verb, image) ==
    [prog |-> prog, verb |-> verb, image |-> image, no_cache |-> FALSE,
     url |-> <<>>, hostname |-> <<>>, command |-> <<>>]

\* check_platform: "docker --version"
VersionCmd == Cmd("docker", "--version", <<>>)

\* check_image_exists, check_image_date: f"{platform} images -q {image_name}"
ImagesCmd(plat, image) == Cmd(plat, "images", image)

\* check_image_date: f"{platform} history --format '{{ .CreatedAt }}' {image_name}"
HistoryCmd(plat, image) == Cmd(plat, "history", image)

\* create_imgbuild_cmd: f"{platform} build [--no-cache] ... --tag '{imgname}'"
create_imgbuild_cmd(plat, frc, builder_url, image) ==
    [Cmd(plat, "build", image) EXCEPT !.no_cache = frc, !.url = builder_url]

\* create_shell_cmd: f"{platform} run ... --hostname '{hostname}' ... {imgname} {command}"
create_shell_cmd(plat, host, image, command) ==
    [Cmd(plat, "run", image) EXCEPT !.hostname = host, !.command = command]

\* check_image_exists: whether "images -q" prints an image id
check_image_exists(imgs, image) == image \in DOMAIN imgs

\* The commands get_image_timedelta issues through check_image_date.
ImageDateCmds(plat, imgs, image) ==
    <<ImagesCmd(plat, image)>>
    \o (IF check_image_exists(imgs, image) THEN <<HistoryCmd(plat, image)>> ELSE <<>>)

\* get_image_timedelta(...).days: the image's age, timedelta() if not found
image_days(imgs, image) == IF check_image_exists(imgs, image) THEN imgs[image] ELSE 0

\* The if/elif chain of baseimage and imagebuilder that sets do_build: the
\* branch for an image older than max_days logs and leaves do_build False.
do_build(frc, img_id, days, max_days) ==
    IF frc THEN TRUE
    ELSE IF ~img_id THEN TRUE
    ELSE IF days > max_days THEN FALSE
    ELSE FALSE

\* f"output-{conf.profile}"
output_dir(conf) == <<"o", "u", "t", "p", "u", "t", "-">> \o conf.profile

Quoted(s) == <<"'">> \o s \o <<"'">>

\* build: " ".join(cmd), the make command run in the container (without
\* the FILES argument of an overlay directory)
make_command(conf) ==
    Join(<<" ">>,
         <<<<"m", "a", "k", "e">>,
           <<"-", "C", " ">> \o Quoted(IMAGEBUILDER_WORKDIR),
           <<"i", "m", "a", "g", "e">>,
           <<"P", "R", "O", "F", "I", "L", "E", "=">> \o Quoted(conf.profile),
           <<"P", "A", "C", "K", "A", "G", "E", "S", "=">> \o Quoted(Join(<<" ">>, conf.packages)),
           <<"D", "I", "S", "A", "B", "L", "E", "D", "_", "S", "E", "R", "V", "I", "C", "E", "S", "=">>
               \o Quoted(Join(<<" ">>, conf.disabled_services)),
           <<"B", "I", "N", "_", "D", "I", "R", "=">>
               \o Quoted(join_path(IMAGEBUILDER_WORKDIR_ROOT, output_dir(conf)))>>)

Exception(kind, message) == [error |-> kind, message |-> message]

-----------------------------------------------------------------------------
(* tasks.py: the tasks.  invoke runs the pre-tasks of the task named on    *)
(* the command line, each once, and then the task; a task called from      *)
(* another task's body runs without its pre-tasks.                         *)

\* The calls invoke makes for a task.
TaskCalls(t, frc) ==
    CASE t = "build" ->
            <<Call("check_platform"), Call("check_baseimage"),
              [Call("build") EXCEPT !.force = frc]>>
      [] t = "imagebuilder" ->
            <<Call("check_platform"), Call("check_baseimage"),
              [Call("imagebuilder") EXCEPT !.force = frc]>>
      [] t = "baseimage" ->
            <<Call("check_platform"), [Call("baseimage") EXCEPT !.force = frc]>>
      [] t = "shell" ->
            <<Call("check_platform"), Call("shell")>>

\* What "docker --version" finds: no engine (the command fails), Docker,
\* or Podman answering to the name docker.
Engines == {"none", "docker", "podman"}

\* check_platform
CheckPlatform ==
    /\ Running("check_platform")
    /\ cmds' = Append(cmds, VersionCmd)
    /\ \E engine \in Engines :
          IF engine = "none"
          THEN /\ halted' = Exception("UnexpectedExit", <<>>)
               /\ pc' = <<>>
               /\ platform' = platform
          ELSE /\ halted' = halted
               /\ pc' = Tail(pc)
               /\ platform' = IF platform = "" THEN engine ELSE platform
    /\ UNCHANGED <<EnvVars, images, dirs, reads, result, basename, imgname, url, hostname>>

\* check_baseimage: a missing base image is built by baseimage(ctx, force=True)
CheckBaseimage ==
    /\ Running("check_baseimage")
    /\ cmds' = Append(cmds, ImagesCmd(platform, OPENWRT_BASE_IMAGE))
    /\ pc' = IF check_image_exists(images, OPENWRT_BASE_IMAGE) THEN Tail(pc)
             ELSE <<[Call("baseimage") EXCEPT !.force = TRUE]>> \o Tail(pc)
    /\ UNCHANGED <<EnvVars, halted, images, platform, dirs, reads, result, basename,
                   imgname, url, hostname>>

\* The end of baseimage and imagebuilder: the build command, if do_build.
\* The command exits with 0 or not; ctx.run raises when it fails.
RunImageBuild(build, issued, command, image) ==
    /\ cmds' = cmds \o issued \o (IF build THEN <<command>> ELSE <<>>)
    /\ \E tool_ok \in (IF build THEN BOOLEAN ELSE {TRUE}) :
          IF ~tool_ok
          THEN /\ halted' = Exception("UnexpectedExit", <<>>)
               /\ pc' = <<>>
               /\ images' = images
          ELSE /\ halted' = halted
               /\ pc' = Tail(pc)
               /\ images' = IF build THEN (image :> 0) @@ images ELSE images

\* baseimage
Baseimage ==
    /\ Running("baseimage")
    /\ LET frc == Head(pc).force
           image == OPENWRT_BASE_IMAGE
           build == do_build(frc, check_image_exists(images, image),
                             image_days(images, image), DEFAULT_MAX_AGE)
       IN RunImageBuild(build,
              <<ImagesCmd(platform, image)>> \o ImageDateCmds(platform, images, image),
              create_imgbuild_cmd(platform, frc, <<>>, image), image)
    /\ UNCHANGED <<EnvVars, platform, dirs, reads, result, basename, imgname, url,
                   hostname>>

\* imagebuilder
Imagebuilder ==
    /\ Running("imagebuilder")
    /\ LET frc == Head(pc).force
           path == join_path(cwd, config)
           r == get_target_config(fs, path)
           image == image_name(r.conf, <<"i", "m", "a", "g", "e", "b", "u", "i", "l", "d", "e", "r">>)
           build == do_build(frc, check_image_exists(images, image),
                             image_days(images, image), DEFAULT_MAX_AGE)
       IN /\ reads' = Append(reads, path)
          /\ result' = r
          /\ IF ~r.ok
             THEN /\ halted' = Exception(r.error, r.message)
                  /\ pc' = <<>>
                  /\ UNCHANGED <<cmds, images, basename, imgname, url>>
             ELSE /\ basename' = <<"i", "m", "a", "g", "e", "b", "u", "i", "l", "d", "e", "r">>
                  /\ imgname' = image
                  /\ url' = IF build THEN imagebuilder_url(r.conf) ELSE url
                  /\ RunImageBuild(build,
                         <<ImagesCmd(platform, image)>>
                         \o ImageDateCmds(platform, images, image),
                         create_imgbuild_cmd(platform, frc, imagebuilder_url(r.conf),
                                             image),
                         image)
    /\ UNCHANGED <<EnvVars, platform, dirs, hostname>>

\* build, up to its call of imagebuilder
Build ==
    /\ Running("build")
    /\ LET path == join_path(workdir, config)
           r == get_target_config(fs, path)
       IN /\ reads' = Append(reads, path)
          /\ result' = r
          /\ halted' = IF r.ok THEN halted ELSE Exception(r.error, r.message)
          /\ pc' = IF ~r.ok THEN <<>>
                   ELSE <<[Call("imagebuilder") EXCEPT !.force = Head(pc).force],
                          [Call("build_make") EXCEPT !.conf = r.conf]>> \o Tail(pc)
    /\ UNCHANGED <<EnvVars, images, platform, cmds, dirs, basename, imgname, url,
                   hostname>>

\* build, after imagebuilder has returned: the output directory, the make
\* command and the call of shell
BuildMake ==
    /\ Running("build_make")
    /\ LET conf == Head(pc).conf
       IN /\ dirs' = dirs \cup {join_path(workdir, output_dir(conf))}
          /\ pc' = <<[Call("shell") EXCEPT !.command = make_command(conf)]>>
                   \o Tail(pc)
    /\ UNCHANGED <<EnvVars, halted, images, platform, cmds, reads, result, basename,
                   imgname, url, hostname>>

\* shell(ctx, config=config, command=command, workdir=workdir)
Shell ==
    /\ Running("shell")
    /\ LET path == join_path(workdir, config)
           r == get_target_config(fs, path)
           image == image_name(r.conf, <<"i", "m", "a", "g", "e", "b", "u", "i", "l", "d", "e", "r">>)
           found == check_image_exists(images, image)
           host == imgname_to_hostname(image)
       IN /\ reads' = Append(reads, path)
          /\ result' = r
          /\ IF ~r.ok
             THEN /\ halted' = Exception(r.error, r.message)
                  /\ pc' = <<>>
                  /\ UNCHANGED <<cmds, dirs, basename, imgname, hostname>>
             ELSE /\ basename' = <<"i", "m", "a", "g", "e", "b", "u", "i", "l", "d", "e", "r">>
                  /\ imgname' = image
                  /\ cmds' = cmds \o <<ImagesCmd(platform, image)>>
                       \o (IF found
                           THEN <<create_shell_cmd(platform, host, image,
                                                   Head(pc).command)>>
                           ELSE <<>>)
                  /\ dirs' = IF found
                             THEN dirs \cup {join_path(workdir, output_dir(r.conf))}
                             ELSE dirs
                  /\ hostname' = IF found THEN host ELSE hostname
                  /\ \E tool_ok \in (IF found THEN BOOLEAN ELSE {TRUE}) :
                        /\ halted' = IF ~found THEN Exception("Exit", <<>>)
                                     ELSE IF ~tool_ok
                                     THEN Exception("UnexpectedExit", <<>>)
                                     ELSE halted
                        /\ pc' = IF found /\ tool_ok THEN Tail(pc) ELSE <<>>
    /\ UNCHANGED <<EnvVars, images, platform, url>>

-----------------------------------------------------------------------------
(* The task specification: one invoke run of build, imagebuilder or        *)
(* baseimage or shell, in a project whose config file may be valid, invalid or       *)
(* missing, with images of any age.                                        *)

\* Oldest image among the inputs, in days.
MaxAge == 4

Tasks == {"build", "imagebuilder", "baseimage", "shell"}

OtherDir == <<"/", "c">>

FileA ==
    ConfigFile(Present(<<"g", "e", "n", "e", "r", "i", "c">>), Present(<<"2", "4", ".", "1", "0", ".", "0">>),
               Present(<<"x", "8", "6">>), Present(<<"6", "4">>),
               Present(<<"l", "u", "c", "i", " ", "c", "u", "r", "l">>))

FileB ==
    ConfigFile(Present(<<"g", "l", "i", "n", "e", "t", "_", "g", "l", "-", "m", "t", "6", "0", "0", "0">>),
               Present(<<"2", "3", ".", "1", "0", ".", "0">>),
               Present(<<"m", "e", "d", "i", "a", "t", "e", "k">>),
               Present(<<"f", "i", "l", "o", "g", "i", "c">>),
               Present(<<"l", "u", "c", "i">>))

\* A required key absent, a required key empty, a release that is no version.
FileNoPackages ==
    ConfigFile(Present(<<"g", "e", "n", "e", "r", "i", "c">>), Present(<<"2", "4", ".", "1", "0", ".", "0">>),
               Present(<<"x", "8", "6">>), Present(<<"6", "4">>), Absent)

FileEmptyTarget ==
    ConfigFile(Present(<<"g", "e", "n", "e", "r", "i", "c">>), Present(<<"2", "4", ".", "1", "0", ".", "0">>),
               Present(<<>>), Present(<<"6", "4">>),
               Present(<<"l", "u", "c", "i", " ", "c", "u", "r", "l">>))

FileBadRelease ==
    ConfigFile(Present(<<"g", "e", "n", "e", "r", "i", "c">>), Present(<<"2", "4", ".", "1", "0">>),
               Present(<<"x", "8", "6">>), Present(<<"6", "4">>),
               Present(<<"l", "u", "c", "i", " ", "c", "u", "r", "l">>))

ValidFiles == {FileA, FileB}
InvalidFiles == {FileNoPackages, FileEmptyTarget, FileBadRelease}

\* The image name imagebuilder and shell derive from a valid file.
ImageOf(file) == image_name(from_map(<<>>, ParseContents(file)).conf,
                            <<"i", "m", "a", "g", "e", "b", "u", "i", "l", "d", "e", "r">>)

\* A file system with the file at the path, if there is one.
FileAt(path, opt) == IF opt = Absent THEN <<>> ELSE (path :> opt[1])

AgeInputs == {Absent, Present(0)} \cup {Present(d) : d \in DEFAULT_MAX_AGE..MaxAge}

Init ==
    /\ task \in Tasks
    /\ force \in (IF task = "shell" THEN {FALSE} ELSE BOOLEAN)
    /\ pc = TaskCalls(task, force)
    /\ halted = NotHalted
    /\ workdir = ProjectRoot
    /\ config = DEFAULT_CONF
    /\ cwd \in {ProjectRoot, OtherDir}
    /\ \E fw \in {Absent} \cup {Present(f) : f \in ValidFiles \cup InvalidFiles},
          fc \in {Absent} \cup {Present(f) : f \in ValidFiles} :
          fs = FileAt(join_path(workdir, config), fw) @@ FileAt(join_path(cwd, config), fc)
    /\ \E base \in AgeInputs, a \in AgeInputs, b \in {Absent, Present(0)} :
          images = FileAt(OPENWRT_BASE_IMAGE, base) @@ FileAt(ImageOf(FileA), a)
                   @@ FileAt(ImageOf(FileB), b)
    /\ platform = ""
    /\ cmds = <<>>
    /\ dirs = {}
    /\ reads = <<>>
    /\ result = NoResult
    /\ basename = <<>>
    /\ imgname = <<>>
    /\ url = <<>>
    /\ hostname = <<>>

Next ==
    \/ CheckPlatform
    \/ CheckBaseimage
    \/ Baseimage
    \/ Imagebuilder
    \/ Build
    \/ BuildMake
    \/ Shell

Spec == Init /\ [][Next]_vars

-----------------------------------------------------------------------------
(* Properties of the tasks (Spec).                                         *)

\* The configuration build reads is fatally invalid: the file is missing, a
\* required key is absent or empty, or the release does not parse.
FatalConfig == ~get_target_config(fs, join_path(workdir, config)).ok

\* C1: in every run of the build task, pre-tasks included, if the
\* configuration is fatally invalid then no container-engine command
\* (docker --version, <platform> images, <platform> build, <platform> run)
\* and no make command is ever issued.
C1_NoCommandOnFatalConfig ==
    (task = "build" /\ FatalConfig) => cmds = <<>>

\* The step issues the build command of the image.
IssuedBuild(image) ==
    \E i \in (Len(cmds) + 1)..Len(cmds') :
        cmds'[i].verb = "build" /\ cmds'[i].image = image

\* A step of a task called without force on an image that exists: the build
\* command is issued if and only if the image is more than max_days old.
StaleRebuildStep(image) ==
    (~Head(pc).force /\ check_image_exists(images, image)) =>
        (IssuedBuild(image) <=> image_days(images, image) > DEFAULT_MAX_AGE)

\* C12: baseimage and imagebuilder rebuild a stale image: with force false
\* and the image present, the task issues the image build command when the
\* image's age in days is greater than max_days, and issues none when it
\* is not.
C12_StaleImageRebuilt ==
    [][/\ Running("baseimage") => StaleRebuildStep(OPENWRT_BASE_IMAGE)
       /\ (Running("imagebuilder") /\ result'.ok) => StaleRebuildStep(imgname')]_vars

\* C15: within one build invocation, whatever workdir, config name and
\* current directory are, every step reads the configuration from one and
\* the same path: build (for make), imagebuilder (to name and build the
\* image) and shell (to select the image to run) read the same file.
C15_OneConfigPath ==
    task = "build" => \A i, j \in DOMAIN reads : reads[i] = reads[j]

-----------------------------------------------------------------------------
(* Properties of get_target_config and the derived values (SpecConfig).    *)

Last(seq) == seq[Len(seq)]

\* get_target_config has been called and has returned or raised.
Called == reads # <<>>

\* The parsed map of the file the call read.
ParsedMap == ReadConfig(fs, Last(reads))

HasAllRequired(c) == \A k \in RequiredKeySet : DictHas(c, k)
AllRequiredNonEmpty(c) ==
    HasAllRequired(c) /\ \A k \in RequiredKeySet : Strip(DictGet(c, k)) # <<>>

\* C2: whenever a required key is absent from the parsed map, or present
\* with a value that is empty after trimming, get_target_config raises and
\* returns no TargetConfig.
C2_RequiredKeysEnforced ==
    (Called /\ ~AllRequiredNonEmpty(ParsedMap)) =>
        (~result.ok /\ halted.error # "" /\ pc = <<>>)

\* A required key is present with an empty value, and the call has raised.
C2_Witness ==
    /\ Called /\ HasAllRequired(ParsedMap) /\ ~AllRequiredNonEmpty(ParsedMap)
    /\ DictGet(ParsedMap, OPENWRT_RELEASE) = <<"2", "4", ".", "1", "0", ".", "0">>
    /\ ~result.ok

\* C3: with every required key present and non-empty and a release that is
\* no major.minor.patch version, the call raises the error kind it raises
\* for missing or empty required keys (RuntimeError), and returns no
\* TargetConfig.
C3_ReleaseErrorKind ==
    (Called /\ AllRequiredNonEmpty(ParsedMap)
        /\ ~IsValidSemVer(DictGet(ParsedMap, OPENWRT_RELEASE))) =>
        (~result.ok /\ result.error = "RuntimeError")

\* C4: a file with OPENWRT_RELEASE=23.05.2 and every other required key
\* present and non-empty is accepted with release.major = 23, and its
\* imagebuilder_url, once computed, ends in .tar.xz.
C4_ZeroPaddedReleaseAccepted ==
    (Called /\ AllRequiredNonEmpty(ParsedMap)
        /\ DictGet(ParsedMap, OPENWRT_RELEASE) = <<"2", "3", ".", "0", "5", ".", "2">>) =>
        /\ result.ok
        /\ result.conf.release.major = 23
        /\ url # <<>> => EndsWith(url, <<".", "t", "a", "r", ".", "x", "z">>)

\* C5: when no file exists at the config path, the call does not raise a
\* file-not-found error: it raises what it raises for an empty file at
\* that path, the required-keys error.
C5_MissingFileAsEmpty ==
    (Called /\ ~path_exists(fs, Last(reads))) =>
        /\ ~result.ok
        /\ result.message # NotFoundMessage
        /\ result = from_map(Last(reads), ParseContents(<<>>))

EnumeratesRequiredKeys(message) == \A k \in RequiredKeySet : Contains(message, k)

\* C6 as stated: every error get_target_config raises carries a message
\* that enumerates the full set of required keys.
C6_EveryErrorEnumeratesKeys ==
    (Called /\ ~result.ok) => EnumeratesRequiredKeys(result.message)

\* C6, amended: the error raised for a non-empty config path whose parsed
\* map lacks a required key carries a message that enumerates the full set
\* of required keys.
C6_MissingKeyErrorEnumeratesKeys ==
    (Called /\ Last(reads) # <<>> /\ ~HasAllRequired(ParsedMap)) =>
        (~result.ok /\ EnumeratesRequiredKeys(result.message))

\* One required key is absent and another is present but empty: the error
\* raised is the one that lists the required keys.
C6_Witness ==
    /\ Called /\ ~result.ok
    /\ ~DictHas(ParsedMap, OPENWRT_RELEASE)
    /\ DictHas(ParsedMap, OPENWRT_PROFILE) /\ DictGet(ParsedMap, OPENWRT_PROFILE) = <<>>
    /\ EnumeratesRequiredKeys(result.message)

\* The release, target and subtarget values of the file the call read.
InputRelease == DictGet(ParsedMap, OPENWRT_RELEASE)
InputTarget == DictGet(ParsedMap, OPENWRT_TARGET)
InputSubtarget == DictGet(ParsedMap, OPENWRT_SUBTARGET)

\* The major.minor.patch text of a version string: what precedes its
\* pre-release and build metadata.
CoreOf(version) == SubSeq(version, 1, IndexOf(version, 1, {"-", "+"}) - 1)
MajorOf(version) == StrToInt(SubSeq(version, 1, IndexOf(version, 1, {"."}) - 1))

ExpectedUrl(r, target, subtarget, ext) ==
    <<"h", "t", "t", "p", "s", ":", "/", "/", "d", "o", "w", "n", "l", "o", "a", "d", "s", ".", "o", "p", "e", "n", "w", "r", "t", ".", "o", "r", "g", "/", "r", "e", "l", "e", "a", "s", "e", "s", "/">>
    \o r \o <<"/", "t", "a", "r", "g", "e", "t", "s", "/">> \o target \o <<"/">> \o subtarget
    \o <<"/", "o", "p", "e", "n", "w", "r", "t", "-", "i", "m", "a", "g", "e", "b", "u", "i", "l", "d", "e", "r", "-">>
    \o r \o <<"-">> \o target \o <<"-">> \o subtarget
    \o <<".", "L", "i", "n", "u", "x", "-", "x", "8", "6", "_", "6", "4", ".", "t", "a", "r", ".">> \o ext

TarZst == <<".", "t", "a", "r", ".", "z", "s", "t">>
TarXz == <<".", "t", "a", "r", ".", "x", "z">>

\* C7: the imagebuilder_url of a constructed TargetConfig is the template
\* filled with r, target, subtarget and ext, where r is the input release's
\* major.minor.patch without its pre-release or build metadata, and ext is
\* "zst" if and only if the major is at least 24, "xz" otherwise.
C7_ImagebuilderUrl ==
    url # <<>> =>
        LET major == MajorOf(InputRelease)
        IN /\ result.conf.release.major = major
           /\ release_str(result.conf) = CoreOf(InputRelease)
           /\ url = ExpectedUrl(CoreOf(InputRelease), InputTarget, InputSubtarget,
                                IF major >= 24 THEN <<"z", "s", "t">> ELSE <<"x", "z">>)
           /\ EndsWith(url, TarZst) <=> major >= 24
           /\ EndsWith(url, TarXz) <=> major < 24

\* The url of a 24.10.0-rc1 release has been computed and ends in .tar.zst.
C7_Witness ==
    /\ url # <<>>
    /\ InputRelease = <<"2", "4", ".", "1", "0", ".", "0", "-", "r", "c", "1">>
    /\ EndsWith(url, TarZst)

\* C8 as stated: image_name(basename) is
\* "{basename}-{release_str}-{target}-{subtarget}".
C8_ImageNameUnprefixed ==
    imgname # <<>> =>
        imgname = basename \o <<"-">> \o CoreOf(InputRelease) \o <<"-">>
                  \o InputTarget \o <<"-">> \o InputSubtarget

\* C8, amended: image_name(basename) is
\* "openwrt/{basename}-{release_str}-{target}-{subtarget}"; for release
\* 24.10.0, target x86, subtarget 64, image_name("imagebuilder") is
\* "openwrt/imagebuilder-24.10.0-x86-64".
C8_ImageNamePrefixed ==
    imgname # <<>> =>
        /\ imgname = <<"o", "p", "e", "n", "w", "r", "t", "/">> \o basename \o <<"-">>
                     \o CoreOf(InputRelease) \o <<"-">> \o InputTarget
                     \o <<"-">> \o InputSubtarget
        /\ (/\ InputRelease = <<"2", "4", ".", "1", "0", ".", "0">>
            /\ InputTarget = <<"x", "8", "6">>
            /\ InputSubtarget = <<"6", "4">>
            /\ basename = <<"i", "m", "a", "g", "e", "b", "u", "i", "l", "d", "e", "r">>) =>
               imgname = <<"o", "p", "e", "n", "w", "r", "t", "/", "i", "m", "a", "g", "e", "b", "u", "i", "l", "d", "e", "r", "-", "2", "4", ".", "1", "0", ".", "0", "-", "x", "8", "6", "-", "6", "4">>

\* image_name("imagebuilder") has been computed for 24.10.0, x86, 64.
C8_Witness ==
    /\ imgname = <<"o", "p", "e", "n", "w", "r", "t", "/", "i", "m", "a", "g", "e", "b", "u", "i", "l", "d", "e", "r", "-", "2", "4", ".", "1", "0", ".", "0", "-", "x", "8", "6", "-", "6", "4">>
    /\ InputRelease = <<"2", "4", ".", "1", "0", ".", "0">>
    /\ basename = <<"i", "m", "a", "g", "e", "b", "u", "i", "l", "d", "e", "r">>

\* The TargetConfigs get_target_config returns on the input files that
\* differ from the file read in release, target and subtarget only.
OtherConfigs ==
    {[result.conf EXCEPT !.release = parse_version_info(r), !.target = t,
                         !.subtarget = s] :
        r \in {v \in ReleaseInputs : IsValidSemVer(v)},
        t \in TargetInputs, s \in SubtargetInputs}

\* C9: for a fixed basename, a TargetConfig that differs in release, target
\* or subtarget has a different image_name.
C9_ImageNameCollisionFree ==
    imgname # <<>> =>
        \A other \in OtherConfigs :
            (\/ other.release # result.conf.release
             \/ other.target # result.conf.target
             \/ other.subtarget # result.conf.subtarget) =>
                image_name(other, basename) # imgname

HostnameSeparators == {"/", ".", "_", "-"}

\* name with every maximal run of separators replaced by one "-".
RECURSIVE CollapseSeparators(_)
CollapseSeparators(name) ==
    IF name = <<>> THEN <<>>
    ELSE LET n == RunLen(name, 1, HostnameSeparators)
         IN IF n >= 1 THEN <<"-">> \o CollapseSeparators(From(name, n + 1))
            ELSE <<Head(name)>> \o CollapseSeparators(Tail(name))

\* C10: the hostname of an image name has every maximal run of "/", ".",
\* "_", "-" replaced by a single "-", so it never holds two consecutive "-".
C10_HostnameRunsCollapsed ==
    hostname # <<>> =>
        /\ hostname = CollapseSeparators(imgname)
        /\ ~Contains(hostname, <<"-", "-">>)

-----------------------------------------------------------------------------
(* Properties of the parser (SpecParser).                                  *)

StartsWith(s, prefix) ==
    Len(s) >= Len(prefix) /\ SubSeq(s, 1, Len(prefix)) = prefix

\* The text of the file the call read.
ReadText == fs[Last(reads)]

\* A file was read.
CalledOnFile == Called /\ path_exists(fs, Last(reads))

\* The physical lines of a text: the pieces between its "\n" characters,
\* the last of them empty when the text ends with "\n".
PhysicalLines(contents) == SplitOn(contents, "\n")

IsCommentLine(line) == line # <<>> /\ line[1] = "#"
NotCommentLine(line) == ~IsCommentLine(line)

\* The text without the physical lines whose first character is "#".
WithoutCommentLines(contents) ==
    Join(<<"\n">>, SelectSeq(PhysicalLines(contents), NotCommentLine))

\* The key is assigned by exactly one physical line.
KeyOnce(lines, key) ==
    Cardinality({j \in DOMAIN lines : StartsWith(lines[j], key \o <<"=">>)}) = 1

AllIn(s, cls) == \A i \in DOMAIN s : s[i] \in cls

\* Characters of an unquoted value on one line: \w, "-", "." and blanks.
PlainValueChars == WordChars \cup {"-", ".", " ", "\t"}

\* A line comment contributes no key: the parsed map is the parsed map of
\* the file without its comment lines.
C11_CommentLineNoKey ==
    CalledOnFile => ParsedMap = ParseContents(WithoutCommentLines(ReadText))

\* A line KEY=VALUE # note, the only one for KEY, maps KEY to VALUE trimmed.
C11_TrailingCommentExcluded ==
    CalledOnFile =>
        LET lines == PhysicalLines(ReadText)
        IN \A i \in DOMAIN lines :
              LET line == lines[i]
                  h == IndexOf(line, 1, {"#"})
                  e == IndexOf(line, 1, {"="})
                  key == SubSeq(line, 1, e - 1)
                  value == SubSeq(line, e + 1, h - 1)
              IN (/\ h <= Len(line) /\ 1 < e /\ e < h
                  /\ AllIn(key, WordChars) /\ AllIn(value, PlainValueChars)
                  /\ KeyOnce(lines, key))
                 => (DictHas(ParsedMap, key) /\ DictGet(ParsedMap, key) = Strip(value))

\* C11: comment text never reaches the parsed map: a line whose first
\* character is "#" contributes no key, whatever follows the "#" and
\* whether or not a newline ends the line, and a line KEY=VALUE # note maps
\* KEY to VALUE trimmed, with nothing from the "#" on.
C11_CommentsNeverParsed ==
    C11_CommentLineNoKey /\ C11_TrailingCommentExcluded

\* The positions of the quote characters of a text.
QuotePositions(t) == {i \in DOMAIN t : t[i] \in Quotes}

\* The text's only quote characters are a matching pair that opens right
\* after KEY= at the start of a line and closes at the end of a line, KEY is
\* assigned by no other line, and between the quotes there are tokens of
\* \w, "-" and ".", blanks, and at least one line break, each line break
\* written as a backslash followed by "\n".
HasContinuedValue(t) ==
    /\ Cardinality(QuotePositions(t)) = 2
    /\ LET q1 == Min(QuotePositions(t))
           q2 == Max(QuotePositions(t))
           start == Max({0} \cup {i \in 1..q1 : t[i] = "\n"}) + 1
           key == SubSeq(t, start, q1 - 2)
           inner == SubSeq(t, q1 + 1, q2 - 1)
       IN /\ t[q1] = t[q2]
          /\ q1 >= start + 2 /\ t[q1 - 1] = "="
          /\ AllIn(key, WordChars)
          /\ KeyOnce(PhysicalLines(t), key)
          /\ q2 = Len(t) \/ t[q2 + 1] = "\n"
          /\ AllIn(inner, PlainValueChars \cup {"\\", "\n"})
          /\ \E i \in DOMAIN inner : inner[i] = "\n"
          /\ \A i \in DOMAIN inner :
                /\ inner[i] = "\n" => (i > 1 /\ inner[i - 1] = "\\")
                /\ inner[i] = "\\" => (i < Len(inner) /\ inner[i + 1] = "\n")

\* The key of the continued value.
ContinuedKey(t) ==
    LET q1 == Min(QuotePositions(t))
    IN SubSeq(t, Max({0} \cup {i \in 1..q1 : t[i] = "\n"}) + 1, q1 - 2)

\* The tokens of the continued value, in file order.
ContinuedTokens(t) ==
    LET inner == SubSeq(t, Min(QuotePositions(t)) + 1, Max(QuotePositions(t)) - 1)
    IN split([i \in DOMAIN inner |-> IF inner[i] = "\\" THEN " " ELSE inner[i]])

\* C13: in a file with no other quote characters, a quoted value continued
\* over several physical lines with backslashes, whatever the indentation
\* of the continuation lines, is one logical value: the key maps to the
\* tokens joined by single spaces, and packages is the tokens in file order.
C13_ContinuedValueJoined ==
    (CalledOnFile /\ HasContinuedValue(ReadText)) =>
        /\ DictHas(ParsedMap, ContinuedKey(ReadText))
        /\ DictGet(ParsedMap, ContinuedKey(ReadText))
               = Join(<<" ">>, ContinuedTokens(ReadText))
        /\ (ContinuedKey(ReadText) = OPENWRT_PACKAGES /\ result.ok) =>
               result.conf.packages = ContinuedTokens(ReadText)

\* A packages value written on three physical lines was read, and a
\* TargetConfig with its three packages was returned.
C13_Witness ==
    /\ CalledOnFile /\ HasContinuedValue(ReadText)
    /\ ContinuedKey(ReadText) = OPENWRT_PACKAGES
    /\ result.ok
    /\ Len(result.conf.packages) = 3
    /\ Cardinality({i \in DOMAIN ReadText : ReadText[i] = "\n"}) >= 6

\* The lines of a text: its physical lines, without the empty piece after
\* a final "\n".
FileLines(contents) ==
    LET lines == PhysicalLines(contents)
    IN IF Last(lines) = <<>> THEN SubSeq(lines, 1, Len(lines) - 1) ELSE lines

\* The text after the first "=" of a line.
AssignedText(line) == From(line, IndexOf(line, 1, {"="}) + 1)

\* The text is quoted: it starts and ends with the same quote character.
IsQuoted(text) ==
    Len(text) >= 2 /\ text[1] \in Quotes /\ text[Len(text)] = text[1]

LineKey(line) == SubSeq(line, 1, IndexOf(line, 1, {"="}) - 1)

LineValue(line) ==
    LET text == AssignedText(line)
    IN IF IsQuoted(text) THEN SubSeq(text, 2, Len(text) - 1) ELSE text

\* KEY=VALUE, KEY='VALUE' or KEY="VALUE", the quotes balanced on the line,
\* KEY of word characters and VALUE of word characters, blanks, "-" and ".".
WellFormedAssignment(line) ==
    /\ 1 < IndexOf(line, 1, {"="}) /\ IndexOf(line, 1, {"="}) <= Len(line)
    /\ AllIn(LineKey(line), WordChars)
    /\ AllIn(LineValue(line), PlainValueChars)

\* Every line is a well-formed assignment and no two lines assign one key.
WellFormedFile(contents) ==
    LET lines == FileLines(contents)
    IN /\ lines # <<>>
       /\ \A i \in DOMAIN lines : WellFormedAssignment(lines[i])
       /\ \A i, j \in DOMAIN lines :
             i # j => LineKey(lines[i]) # LineKey(lines[j])

\* C14: the parser treats lines independently: in a file whose every line
\* is a well-formed assignment (plain, or quoted with the quotes balanced on
\* the line, the value possibly empty) and whose keys are distinct, every
\* key of the file is in the parsed map with its own line's trimmed value;
\* quote normalization merges no two lines and drops no key.
C14_LinesIndependent ==
    (CalledOnFile /\ WellFormedFile(ReadText)) =>
        \A i \in DOMAIN FileLines(ReadText) :
            LET line == FileLines(ReadText)[i]
            IN /\ DictHas(ParsedMap, LineKey(line))
               /\ DictGet(ParsedMap, LineKey(line)) = Strip(LineValue(line))

====
